---- MODULE Spec2Model ----
(***************************************************************************)
(* A model of src_cpp/elfgames/go/record.h: the message value types        *)
(* (ClientCtrl, ModelPair, MsgRequest, MsgResult, Record, ThreadState),    *)
(* their JSON mappings, and the Records collector.                         *)
(*                                                                         *)
(* C++ values are TLA+ records with the fields' own names.  A JSON object  *)
(* is a function from its keys to values, so a missing key is a key that   *)
(* is not in DOMAIN.  float values are written as strings ("0.0", "1.0",   *)
(* "nan"); the JSON value null is the string "null".  A call that may      *)
(* throw returns [ok |-> FALSE, ...] for the throw.                        *)
(***************************************************************************)
EXTENDS Integers, Sequences, FiniteSets, TLC

\* ---------------------------------------------------------------- bounds
MaxThreads == 2      \* thread ids 1..MaxThreads
MaxRecords == 2      \* addRecord is enabled while Len(records) < MaxRecords
MaxVer == 3          \* model versions range over -MaxVer..MaxVer
MaxRow == 3          \* a policies row of the input holds 0..MaxRow entries
MaxBatch == 3        \* a batch array holds 0..MaxBatch elements
MaxWorkers == 2      \* worker threads calling into one collector at once

\* The width of CoordRecord::prob (base/board.h sets the real value; the
\* model keeps the array small and the rows of the input longer).
BOUND_COORD == 2

VARIABLES
  identity,   \* Records::identity
  states,     \* Records::states  : thread_id -> ThreadState
  records,    \* Records::records : sequence of Record
  lastOp,     \* the call that produced the current state
  lastUpd,    \* history: thread_id -> the ThreadState of its latest updateState since clear()
  nAdded,     \* history: the number of addRecord calls since construction or clear()
  loaded,     \* what Records::createFromJsonString(dumpJsonString()) returned
  pc,         \* SpecConc: each worker's position in its call
  snap,       \* SpecConc: what each worker read before it writes
  pair,       \* SpecPair: a ModelPair
  pairOut,    \* SpecPair: what the last call on the pair returned
  reqJson,    \* SpecReq: the JSON object handed to MsgRequest::createFromJson
  reqOut,     \* SpecReq: what MsgRequest::createFromJson returned
  file,       \* SpecBatch: the file (or string) handed to the batch loaders
  batchOut    \* SpecBatch: what the batch loader did

collectorVars == <<identity, states, records, lastOp, lastUpd, nAdded, loaded>>
concVars == <<pc, snap>>
pairVars == <<pair, pairOut>>
reqVars == <<reqJson, reqOut>>
batchVars == <<file, batchOut>>
vars == <<identity, states, records, lastOp, lastUpd, nAdded, loaded, pc, snap,
          pair, pairOut, reqJson, reqOut, file, batchOut>>

\* ------------------------------------------------------------ exceptions
Throw(dflt) == [ok |-> FALSE, v |-> dflt]
Ok(val) == [ok |-> TRUE, v |-> val]

\* ------------------------------------------------------- json_utils.h
Has(j, k) == k \in DOMAIN j

\* json::parse(j.dump()) of one float: dump writes a non-finite value as null.
DumpFloat(f) == IF f = "nan" THEN "null" ELSE f

\* JSON_LOAD / JSON_LOAD_OPTIONAL over the plain fields of one struct: the
\* keys of req must be there (a float one holding a number) or the load
\* throws; every other field of target keeps its default when its key is
\* missing.
JSON_LOAD(target, j, req, floats) ==
  IF (\E f \in req : ~Has(j, f)) \/ (\E f \in floats \cap DOMAIN j : j[f] = "null")
  THEN Throw(target)
  ELSE Ok([f \in DOMAIN target |-> IF Has(j, f) THEN j[f] ELSE target[f]])

\* The set of sequences over S of length 0..n.
SeqsUpTo(S, n) == UNION {[1..m -> S] : m \in 0..n}

\* ------------------------------------------------------------ TSOptions
\* elf/ai/tree_search/tree_search_options.h: an opaque value with its own
\* JSON object.
TSOptionsVals == {"mcts_a", "mcts_b"}
TSOptions_setJsonFields(o) == [tsopt |-> o]
TSOptions_createFromJson(j) ==
  IF Has(j, "tsopt") THEN Ok(j.tsopt) ELSE Throw("mcts_a")

\* ----------------------------------------------------------- ClientCtrl
CLIENT_SELFPLAY_ONLY == 1
CLIENT_EVAL_THEN_SELFPLAY == 2

ClientCtrl_default ==
  [client_type |-> CLIENT_SELFPLAY_ONLY, num_game_thread_used |-> -1,
   black_resign_thres |-> "0.0", white_resign_thres |-> "0.0",
   never_resign_prob |-> "0.0", player_swap |-> FALSE, async |-> FALSE]

ClientCtrl_floats == {"black_resign_thres", "white_resign_thres", "never_resign_prob"}

ClientCtrl_setJsonFields(c) == [f \in DOMAIN c |-> c[f]]

ClientCtrl_required(player_swap_optional) ==
  {"client_type", "num_game_thread_used", "black_resign_thres",
   "white_resign_thres", "never_resign_prob"}
    \cup (IF player_swap_optional THEN {} ELSE {"player_swap"})

ClientCtrl_createFromJson(j, player_swap_optional) ==
  JSON_LOAD(ClientCtrl_default, j, ClientCtrl_required(player_swap_optional),
            ClientCtrl_floats)

\* ------------------------------------------------------------ ModelPair
ModelPair_default == [black_ver |-> -1, white_ver |-> -1, mcts_opt |-> "mcts_a"]

wait(p) == p.black_ver < 0

set_wait(p) == [p EXCEPT !.black_ver = -1, !.white_ver = -1]

\* A variant that forgets the test on black_ver.
is_selfplay_whiteOnly(p) == p.white_ver = -1

is_selfplay(p) == p.black_ver >= 0 /\ p.white_ver = -1

\* The branch ModelPair::info() takes (the text it writes before mcts_opt.info()).
ModelPair_info(p) ==
  IF wait(p) THEN "[wait]"
  ELSE IF is_selfplay(p) THEN "[selfplay=black_ver]"
  ELSE "[b=black_ver][w=white_ver]"

ModelPair_setJsonFields(p) ==
  [black_ver |-> p.black_ver, white_ver |-> p.white_ver,
   mcts_opt |-> TSOptions_setJsonFields(p.mcts_opt)]

ModelPair_createFromJson(j) ==
  IF ~Has(j, "black_ver") \/ ~Has(j, "white_ver") \/ ~Has(j, "mcts_opt")
  THEN Throw(ModelPair_default)
  ELSE LET o == TSOptions_createFromJson(j.mcts_opt) IN
       IF ~o.ok THEN Throw(ModelPair_default)
       ELSE Ok([black_ver |-> j.black_ver, white_ver |-> j.white_ver,
                mcts_opt |-> o.v])

\* ----------------------------------------------------------- MsgRequest
MsgRequest_default == [vers |-> ModelPair_default, client_ctrl |-> ClientCtrl_default]

MsgRequest_setJsonFields(m) ==
  [vers |-> ModelPair_setJsonFields(m.vers),
   client_ctrl |-> ClientCtrl_setJsonFields(m.client_ctrl)]

\* A variant that never tells ClientCtrl that player_swap is optional.
MsgRequest_createFromJson_strict(j) ==
  IF ~Has(j, "vers") THEN Throw(MsgRequest_default)
  ELSE LET vers == ModelPair_createFromJson(j.vers) IN
       IF ~vers.ok \/ ~Has(j, "client_ctrl") THEN Throw(MsgRequest_default)
       ELSE LET ctrl == ClientCtrl_createFromJson(j.client_ctrl, FALSE) IN
            IF ~ctrl.ok THEN Throw(MsgRequest_default)
            ELSE Ok([vers |-> vers.v, client_ctrl |-> ctrl.v])

MsgRequest_createFromJson(j) ==
  IF ~Has(j, "vers") THEN Throw(MsgRequest_default)
  ELSE LET vers == ModelPair_createFromJson(j.vers) IN
       IF ~vers.ok \/ ~Has(j, "client_ctrl") THEN Throw(MsgRequest_default)
       ELSE LET ctrl == ClientCtrl_createFromJson(j.client_ctrl, is_selfplay(vers.v)) IN
            IF ~ctrl.ok THEN Throw(MsgRequest_default)
            ELSE Ok([vers |-> vers.v, client_ctrl |-> ctrl.v])

\* ------------------------------------------------------------ MsgResult
MsgResult_default ==
  [num_move |-> 0, reward |-> "0.0", black_never_resign |-> FALSE,
   white_never_resign |-> FALSE, using_models |-> <<>>, content |-> "",
   policies |-> <<>>, values |-> <<>>]

\* Every prob array is written out in full; the key "policies" exists only
\* when there is at least one row to push_back.
MsgResult_setJsonFields(r) ==
  [f \in DOMAIN r \ (IF r.policies = <<>> THEN {"policies"} ELSE {}) |-> r[f]]

\* The indices k of prob[k] = j1[k] for one row j1 (0-based, as in the code).
RowWrites(j1) == {k \in 0..(Len(j1) - 1) : TRUE}

\* A value-initialised CoordRecord after the writes that land inside it.
ProbOf(j1) == [k \in 1..BOUND_COORD |-> IF k <= Len(j1) THEN j1[k] ELSE 0]

\* Whether the JSON_LOAD / JSON_LOAD_VEC lines before the policies loop pass.
MsgResult_fieldsLoad(j) ==
  /\ JSON_LOAD(MsgResult_default, j,
               {"num_move", "reward", "content", "black_never_resign",
                "white_never_resign", "values"}, {"reward"}).ok
  /\ \A i \in 1..Len(j["values"]) : j["values"][i] # "null"

\* Every index written into a prob array while MsgResult::createFromJson(j) runs.
MsgResult_writes(j) ==
  IF MsgResult_fieldsLoad(j) /\ Has(j, "policies")
  THEN UNION {RowWrites(j["policies"][i]) : i \in 1..Len(j["policies"])}
  ELSE {}

MsgResult_createFromJson(j) ==
  IF ~MsgResult_fieldsLoad(j) THEN Throw(MsgResult_default)
  ELSE Ok([f \in DOMAIN MsgResult_default |->
             IF f = "policies"
             THEN (IF Has(j, f)
                   THEN [i \in 1..Len(j[f]) |-> ProbOf(j[f][i])]
                   ELSE <<>>)
             ELSE IF Has(j, f) THEN j[f] ELSE MsgResult_default[f]])

\* --------------------------------------------------------------- Record
Record_default ==
  [request |-> MsgRequest_default, result |-> MsgResult_default,
   timestamp |-> 0, thread_id |-> 0, seq |-> 0, pri |-> "0.0", offline |-> FALSE]

Record_setJsonFields(r) ==
  [request |-> MsgRequest_setJsonFields(r.request),
   result |-> MsgResult_setJsonFields(r.result),
   timestamp |-> r.timestamp, thread_id |-> r.thread_id, seq |-> r.seq,
   pri |-> r.pri, offline |-> r.offline]

Record_createFromJson(j) ==
  IF ~Has(j, "request") THEN Throw(Record_default)
  ELSE LET request == MsgRequest_createFromJson(j["request"]) IN
       IF ~request.ok \/ ~Has(j, "result") THEN Throw(Record_default)
       ELSE LET result == MsgResult_createFromJson(j["result"]) IN
            IF \/ ~result.ok
               \/ \E f \in {"timestamp", "thread_id", "seq", "pri"} : ~Has(j, f)
               \/ j["pri"] = "null"
            THEN Throw(Record_default)
            ELSE Ok([request |-> request.v, result |-> result.v,
                     timestamp |-> j["timestamp"], thread_id |-> j["thread_id"],
                     seq |-> j["seq"], pri |-> j["pri"],
                     offline |-> IF Has(j, "offline") THEN j["offline"] ELSE FALSE])

\* The prob indices written while Record::createFromJson(j) runs: request is
\* loaded first, then result, so a later missing field throws after the writes.
Record_writes(j) ==
  IF Has(j, "request") /\ MsgRequest_createFromJson(j["request"]).ok /\ Has(j, "result")
  THEN MsgResult_writes(j["result"])
  ELSE {}

\* ---------------------------------------------------------- ThreadState
ThreadState_default ==
  [thread_id |-> -1, seq |-> 0, move_idx |-> 0, black |-> -1, white |-> -1]

ThreadState_setJsonFields(t) == [f \in DOMAIN t |-> t[f]]

ThreadState_createFromJson(j) ==
  JSON_LOAD(ThreadState_default, j,
            {"thread_id", "seq", "move_idx", "black", "white"}, {})

\* -------------------------------------------------------------- Records
EmptyStates == [id \in {} |-> ThreadState_default]

Records_default == [identity |-> "", states |-> EmptyStates, records |-> <<>>]

\* A variant that keeps an entry whose seq is ahead of the update's.
updateState_keepsNewer(st, ts) ==
  IF ts.thread_id \in DOMAIN st /\ st[ts.thread_id].seq > ts.seq
  THEN st
  ELSE [id \in DOMAIN st \cup {ts.thread_id} |-> IF id = ts.thread_id THEN ts ELSE st[id]]

\* states[ts.thread_id] = ts
updateState(st, ts) ==
  [id \in DOMAIN st \cup {ts.thread_id} |-> IF id = ts.thread_id THEN ts ELSE st[id]]

\* A variant that validates: it turns away a record whose reward is not a number.
addRecord_validating(rs, r) == IF r.result.reward = "nan" THEN rs ELSE Append(rs, r)

\* records.emplace_back(r)
addRecord(rs, r) == Append(rs, r)

\* A variant that calls the collector empty only when states is empty too.
isRecordEmpty_andStates(rs) == Len(rs) = 0 /\ DOMAIN states = {}

\* records.empty()
isRecordEmpty(rs) == Len(rs) = 0

\* The orders in which a range-for may visit the keys of an unordered_map.
Orders(S) ==
  {o \in [1..Cardinality(S) -> S] : \A a \in S : \E i \in DOMAIN o : o[i] = a}

\* ord: the order in which the loop visits states.
Records_setJsonFields(x, ord) ==
  LET keys == {"identity"}
                \cup (IF Len(ord) > 0 THEN {"states"} ELSE {})
                \cup (IF Len(x.records) > 0 THEN {"records"} ELSE {})
  IN [k \in keys |->
        CASE k = "identity" -> x.identity
          [] k = "states" ->
               [i \in 1..Len(ord) |-> ThreadState_setJsonFields(x.states[ord[i]])]
          [] k = "records" ->
               [i \in 1..Len(x.records) |-> Record_setJsonFields(x.records[i])]]

\* j.dump() followed by json::parse, on the JSON of one ClientCtrl, MsgResult,
\* Record and Records: the text keeps every value but a non-finite float.
ClientCtrl_dump(j) ==
  [f \in DOMAIN j |-> IF f \in ClientCtrl_floats THEN DumpFloat(j[f]) ELSE j[f]]

MsgResult_dump(j) ==
  [f \in DOMAIN j |->
     CASE f = "reward" -> DumpFloat(j[f])
       [] f = "values" -> [i \in 1..Len(j[f]) |-> DumpFloat(j[f][i])]
       [] OTHER -> j[f]]

Record_dump(j) ==
  [f \in DOMAIN j |->
     CASE f = "pri" -> DumpFloat(j[f])
       [] f = "result" -> MsgResult_dump(j[f])
       [] f = "request" ->
            [vers |-> j[f]["vers"], client_ctrl |-> ClientCtrl_dump(j[f]["client_ctrl"])]
       [] OTHER -> j[f]]

Records_dumpJsonString(x, ord) ==
  LET j == Records_setJsonFields(x, ord) IN
  [k \in DOMAIN j |->
     IF k = "records" THEN [i \in 1..Len(j[k]) |-> Record_dump(j[k][i])] ELSE j[k]]

\* A variant that keys each loaded state by its place in the array.
StatesFromJson_byIndex(ts) == [i \in DOMAIN ts |-> ts[i]]

\* rs.states[t.thread_id] = t for each element in turn: the last one wins.
StatesFromJson(ts) ==
  [id \in {ts[i].thread_id : i \in DOMAIN ts} |->
     LET last == CHOOSE i \in DOMAIN ts :
                   /\ ts[i].thread_id = id
                   /\ \A k \in DOMAIN ts : ts[k].thread_id = id => k <= i
     IN ts[last]]

Records_createFromJson(j) ==
  IF ~Has(j, "identity") THEN Throw(Records_default)
  ELSE LET sts == IF Has(j, "states")
                  THEN [i \in 1..Len(j["states"]) |->
                          ThreadState_createFromJson(j["states"][i])]
                  ELSE <<>>
           rcs == IF Has(j, "records")
                  THEN [i \in 1..Len(j["records"]) |->
                          Record_createFromJson(j["records"][i])]
                  ELSE <<>>
       IN IF (\E i \in DOMAIN sts : ~sts[i].ok) \/ (\E i \in DOMAIN rcs : ~rcs[i].ok)
          THEN Throw(Records_default)
          ELSE Ok([identity |-> j["identity"],
                   states |-> StatesFromJson([i \in DOMAIN sts |-> sts[i].v]),
                   records |-> [i \in DOMAIN rcs |-> rcs[i].v]])

\* json::parse of the text reads back the tree the text wrote.
Records_createFromJsonString(s) == Records_createFromJson(s)

\* ------------------------------------------------- values the calls take
ThreadIds == 1..MaxThreads

ThreadStates ==
  [thread_id : ThreadIds, seq : {0, 1}, move_idx : {0, 1}, black : {1}, white : {-1}]

FullProb == [k \in 1..BOUND_COORD |-> 1]

\* A finished self-play game with one move's policy and value.
R_selfplay ==
  [Record_default EXCEPT
     !.request.vers.black_ver = 1,
     !.result = [MsgResult_default EXCEPT !.num_move = 42, !.reward = "1.0",
                   !.content = "sgf", !.policies = <<FullProb>>, !.values = <<"0.5">>],
     !.timestamp = 100, !.thread_id = 3, !.seq = 7]

\* An evaluation game between versions 1 and 2, reclassified offline.
R_eval ==
  [Record_default EXCEPT
     !.request.vers.black_ver = 1, !.request.vers.white_ver = 2,
     !.request.vers.mcts_opt = "mcts_b",
     !.request.client_ctrl.client_type = CLIENT_EVAL_THEN_SELFPLAY,
     !.request.client_ctrl.player_swap = TRUE, !.request.client_ctrl.async = TRUE,
     !.result.using_models = <<1, 2>>, !.result.black_never_resign = TRUE,
     !.timestamp = 200, !.thread_id = 1, !.offline = TRUE]

\* A record nobody validated: its reward is not a number.
R_nan == [Record_default EXCEPT !.result.reward = "nan", !.timestamp = 300]

RecordPool == {R_selfplay, R_eval, R_nan}

Identities == {"", "shard0"}

NoCall == [op |-> "none", ts |-> ThreadState_default, r |-> Record_default, ret |-> FALSE]
NotLoaded == Throw(Records_default)

\* ------------------------------------------- the collector, one caller
IdleConc == pc = <<>> /\ snap = <<>>
NoPairCall == [op |-> "none", ret |-> FALSE, info |-> "none"]
IdlePair == pair = ModelPair_default /\ pairOut = NoPairCall
NotCalled == [called |-> FALSE, res |-> Throw(MsgRequest_default)]
IdleReq == reqJson = <<>> /\ reqOut = NotCalled
NoBatchCall ==
  [call |-> "none", outcome |-> "none", ret |-> FALSE, records |-> <<>>,
   writes |-> {}, corrupted |-> FALSE]
IdleBatch == file = <<>> /\ batchOut = NoBatchCall

\* Records() and Records(id)
Init ==
  /\ identity \in Identities
  /\ states = EmptyStates
  /\ records = <<>>
  /\ lastOp = NoCall
  /\ lastUpd = [id \in ThreadIds |-> ThreadState_default]
  /\ nAdded = 0
  /\ loaded = NotLoaded
  /\ IdleConc /\ IdlePair /\ IdleReq /\ IdleBatch

Clear ==
  /\ states' = EmptyStates
  /\ records' = <<>>
  /\ lastOp' = [NoCall EXCEPT !.op = "clear"]
  /\ lastUpd' = [id \in ThreadIds |-> ThreadState_default]
  /\ nAdded' = 0
  /\ loaded' = NotLoaded
  /\ UNCHANGED <<identity, concVars, pairVars, reqVars, batchVars>>

AddRecord ==
  \E r \in RecordPool :
    /\ Len(records) < MaxRecords
    /\ records' = addRecord(records, r)
    /\ lastOp' = [NoCall EXCEPT !.op = "addRecord", !.r = r]
    /\ nAdded' = nAdded + 1
    /\ loaded' = NotLoaded
    /\ UNCHANGED <<identity, states, lastUpd, concVars, pairVars, reqVars, batchVars>>

IsRecordEmpty ==
  /\ lastOp' = [NoCall EXCEPT !.op = "isRecordEmpty", !.ret = isRecordEmpty(records)]
  /\ loaded' = NotLoaded
  /\ UNCHANGED <<identity, states, records, lastUpd, nAdded,
                 concVars, pairVars, reqVars, batchVars>>

UpdateState ==
  \E ts \in ThreadStates :
    /\ states' = updateState(states, ts)
    /\ lastOp' = [NoCall EXCEPT !.op = "updateState", !.ts = ts]
    /\ lastUpd' = [lastUpd EXCEPT ![ts.thread_id] = ts]
    /\ loaded' = NotLoaded
    /\ UNCHANGED <<identity, records, nAdded, concVars, pairVars, reqVars, batchVars>>

\* createFromJsonString(dumpJsonString()) on the collector as it stands.
DumpLoad ==
  \E ord \in Orders(DOMAIN states) :
    /\ loaded' = Records_createFromJsonString(
                   Records_dumpJsonString(
                     [identity |-> identity, states |-> states, records |-> records],
                     ord))
    /\ lastOp' = [NoCall EXCEPT !.op = "roundtrip"]
    /\ UNCHANGED <<identity, states, records, lastUpd, nAdded,
                   concVars, pairVars, reqVars, batchVars>>

Next == Clear \/ AddRecord \/ IsRecordEmpty \/ UpdateState \/ DumpLoad

Spec == Init /\ [][Next]_vars

\* ------------------------------------------------ claims on the collector
Updated == {id \in ThreadIds : lastUpd[id].thread_id = id}

C3_Entries ==
  /\ DOMAIN states = Updated
  /\ \A id \in DOMAIN states : states[id] = lastUpd[id] /\ states[id].thread_id = id

C3_Step ==
  lastOp'.op = "updateState" =>
    /\ DOMAIN states' = DOMAIN states \cup {lastOp'.ts.thread_id}
    /\ states'[lastOp'.ts.thread_id] = lastOp'.ts
    /\ \A id \in DOMAIN states : id # lastOp'.ts.thread_id => states'[id] = states[id]

\* C3: states holds exactly one entry per thread_id updated since the last
\* clear(); the entry is the ThreadState of the latest updateState for that id
\* (whatever its seq or move_idx), its key is its own thread_id, and an
\* updateState leaves the entries of the other ids as they were.
C3_LastWriteWins == []C3_Entries /\ [][C3_Step]_vars

\* An update with seq 0 has replaced an entry and the other id is present too.
C3_Witness ==
  /\ lastOp.op = "updateState"
  /\ lastOp.ts.seq = 0
  /\ Cardinality(DOMAIN states) = MaxThreads
  /\ \E id \in DOMAIN states : states[id].seq = 1

\* C4: addRecord always grows records by exactly the record passed, at the
\* end, and leaves the earlier elements, states and identity alone;
\* updateState never changes records; records shrinks only in clear().
C4_AppendOnly ==
  [][ /\ lastOp'.op = "addRecord" =>
           /\ Len(records') = Len(records) + 1
           /\ records'[Len(records')] = lastOp'.r
           /\ \A i \in 1..Len(records) : records'[i] = records[i]
           /\ states' = states /\ identity' = identity
      /\ lastOp'.op = "updateState" => records' = records
      /\ (\/ Len(records') < Len(records)
          \/ \E i \in 1..Len(records) : records'[i] # records[i])
           => lastOp'.op = "clear" ]_vars

\* The unvalidated record was appended behind another one.
C4_Witness ==
  /\ lastOp.op = "addRecord" /\ lastOp.r = R_nan
  /\ Len(records) = 2 /\ records[2] = R_nan /\ records[1] # R_nan

\* C8: isRecordEmpty() is true iff no addRecord happened since construction
\* or the last clear(), whatever states holds; clear() empties states too.
C8_IsRecordEmpty ==
  /\ lastOp.op = "isRecordEmpty" => (lastOp.ret <=> nAdded = 0)
  /\ lastOp.op = "clear" => DOMAIN states = {} /\ Len(records) = 0 /\ nAdded = 0

\* isRecordEmpty() returned true on a collector that holds thread states.
C8_Witness == lastOp.op = "isRecordEmpty" /\ lastOp.ret /\ DOMAIN states # {}

Collector == [identity |-> identity, states |-> states, records |-> records]

FiniteFloats(r) ==
  /\ r.pri # "nan"
  /\ r.result.reward # "nan"
  /\ \A i \in DOMAIN r.result.values : r.result.values[i] # "nan"
  /\ \A f \in ClientCtrl_floats : r.request.client_ctrl[f] # "nan"

\* C5 as stated: every reachable collector survives dump and load.
C5_RoundTripAll == lastOp.op = "roundtrip" => loaded = Ok(Collector)

\* C5, amended: a reachable collector whose records hold only finite floats
\* is reproduced by createFromJsonString(dumpJsonString()): same identity,
\* same thread_id -> ThreadState mapping, same records in the same order.
C5_RoundTripFinite ==
  (lastOp.op = "roundtrip" /\ \A i \in DOMAIN records : FiniteFloats(records[i]))
    => loaded = Ok(Collector)

\* A collector with two thread states and two records went through the round trip.
C5_Witness ==
  /\ lastOp.op = "roundtrip" /\ loaded.ok
  /\ Cardinality(DOMAIN states) = 2 /\ Len(records) = 2

\* ------------------------------------------------------------ ModelPair
Vers == (-MaxVer)..MaxVer

InitPair ==
  /\ pair \in [black_ver : Vers, white_ver : Vers, mcts_opt : TSOptionsVals]
  /\ pairOut = NoPairCall
  /\ identity = "" /\ states = EmptyStates /\ records = <<>> /\ lastOp = NoCall
  /\ lastUpd = [id \in ThreadIds |-> ThreadState_default]
  /\ nAdded = 0 /\ loaded = NotLoaded
  /\ IdleConc /\ IdleReq /\ IdleBatch

CallWait ==
  /\ pairOut' = [NoPairCall EXCEPT !.op = "wait", !.ret = wait(pair)]
  /\ UNCHANGED <<pair, collectorVars, concVars, reqVars, batchVars>>

CallIsSelfplay ==
  /\ pairOut' = [NoPairCall EXCEPT !.op = "is_selfplay", !.ret = is_selfplay(pair)]
  /\ UNCHANGED <<pair, collectorVars, concVars, reqVars, batchVars>>

CallInfo ==
  /\ pairOut' = [NoPairCall EXCEPT !.op = "info", !.info = ModelPair_info(pair)]
  /\ UNCHANGED <<pair, collectorVars, concVars, reqVars, batchVars>>

CallSetWait ==
  /\ pair' = set_wait(pair)
  /\ pairOut' = [NoPairCall EXCEPT !.op = "set_wait"]
  /\ UNCHANGED <<collectorVars, concVars, reqVars, batchVars>>

NextPair == CallWait \/ CallIsSelfplay \/ CallInfo \/ CallSetWait

SpecPair == InitPair /\ [][NextPair]_vars

C9_Classes ==
  /\ pairOut.op = "wait" => (pairOut.ret <=> pair.black_ver < 0)
  /\ pairOut.op = "is_selfplay" =>
       (pairOut.ret <=> (pair.black_ver >= 0 /\ pair.white_ver = -1))
  /\ ~(wait(pair) /\ is_selfplay(pair))
  /\ pairOut.op = "info" =>
       /\ pairOut.info = "[wait]" <=> pair.black_ver < 0
       /\ pairOut.info = "[selfplay=black_ver]" <=>
            (pair.black_ver >= 0 /\ pair.white_ver = -1)
  /\ pairOut.op = "set_wait" =>
       /\ pair.black_ver = -1 /\ pair.white_ver = -1
       /\ wait(pair) /\ ~is_selfplay(pair)

\* C9 as stated: besides the classes, every pair that is neither wait nor
\* self-play names two distinct model versions.
C9_AsStated ==
  /\ C9_Classes
  /\ (pairOut.op = "info" /\ ~wait(pair) /\ ~is_selfplay(pair)) =>
       (pair.black_ver >= 0 /\ pair.white_ver >= 0 /\ pair.black_ver # pair.white_ver)

\* C9, amended: wait() iff black_ver < 0; is_selfplay() iff black_ver >= 0 and
\* white_ver = -1; never both; a pair that is neither has black_ver >= 0 and
\* white_ver # -1 and info() writes it as [b=..][w=..] (the two versions may
\* be equal, and white_ver may be below -1); set_wait() leaves both fields -1.
C9_ModelPair ==
  /\ C9_Classes
  /\ (~wait(pair) /\ ~is_selfplay(pair)) =>
       (pair.black_ver >= 0 /\ pair.white_ver # -1)
  /\ (pairOut.op = "info" /\ pairOut.info = "[b=black_ver][w=white_ver]") =>
       (pair.black_ver >= 0 /\ pair.white_ver # -1)

\* info() took its last branch on a pair whose two versions are the same.
C9_Witness ==
  /\ pairOut.op = "info" /\ pairOut.info = "[b=black_ver][w=white_ver]"
  /\ pair.black_ver = pair.white_ver

\* ----------------------------------------------------------- MsgRequest
ClientCtrlVals ==
  {[ClientCtrl_default EXCEPT !.player_swap = s, !.async = a] : s, a \in BOOLEAN}

Restrict(j, keys) == [k \in DOMAIN j \cap keys |-> j[k]]

ClientCtrlJsons ==
  {Restrict(ClientCtrl_setJsonFields(c), keys) :
     c \in ClientCtrlVals, keys \in SUBSET DOMAIN ClientCtrl_default}

ModelPairJsons ==
  {ModelPair_setJsonFields(p) :
     p \in [black_ver : {-1, 0, MaxVer}, white_ver : {-2, -1, MaxVer}, mcts_opt : {"mcts_a"}]}
    \cup {Restrict(ModelPair_setJsonFields(ModelPair_default), {"black_ver", "mcts_opt"})}

RequestJsons ==
  {[vers |-> v, client_ctrl |-> c] : v \in ModelPairJsons, c \in ClientCtrlJsons}
    \cup {[vers |-> v] : v \in ModelPairJsons}

InitReq ==
  /\ reqJson \in RequestJsons
  /\ reqOut = NotCalled
  /\ identity = "" /\ states = EmptyStates /\ records = <<>> /\ lastOp = NoCall
  /\ lastUpd = [id \in ThreadIds |-> ThreadState_default]
  /\ nAdded = 0 /\ loaded = NotLoaded
  /\ IdleConc /\ IdlePair /\ IdleBatch

LoadRequest ==
  /\ ~reqOut.called
  /\ reqOut' = [called |-> TRUE, res |-> MsgRequest_createFromJson(reqJson)]
  /\ UNCHANGED <<reqJson, collectorVars, concVars, pairVars, batchVars>>

NextReq == LoadRequest

SpecReq == InitReq /\ [][NextReq]_vars

\* The JSON names a complete vers and a client_ctrl with its five plain fields.
ReqCore ==
  /\ Has(reqJson, "client_ctrl")
  /\ {"black_ver", "white_ver", "mcts_opt"} \subseteq DOMAIN reqJson["vers"]
  /\ {"client_type", "num_game_thread_used", "black_resign_thres",
      "white_resign_thres", "never_resign_prob"} \subseteq DOMAIN reqJson["client_ctrl"]

ReqSelfplay == reqJson["vers"]["black_ver"] >= 0 /\ reqJson["vers"]["white_ver"] = -1

\* C7: with the rest of the request present, a client_ctrl without async
\* loads with async = false; one without player_swap loads with
\* player_swap = false when vers is self-play and makes the load fail when
\* vers is wait or evaluation.
C7_BackwardCompat ==
  (reqOut.called /\ ReqCore) =>
    LET cc == reqJson["client_ctrl"] IN
    /\ (~Has(cc, "async") /\ (Has(cc, "player_swap") \/ ReqSelfplay)) =>
         (reqOut.res.ok /\ reqOut.res.v.client_ctrl.async = FALSE)
    /\ (~Has(cc, "player_swap") /\ ReqSelfplay) =>
         (reqOut.res.ok /\ reqOut.res.v.client_ctrl.player_swap = FALSE)
    /\ (~Has(cc, "player_swap") /\ ~ReqSelfplay) => ~reqOut.res.ok
    /\ (Has(cc, "player_swap") /\ Has(cc, "async")) =>
         (reqOut.res.ok /\ reqOut.res.v.client_ctrl.player_swap = cc["player_swap"]
            /\ reqOut.res.v.client_ctrl.async = cc["async"])

\* A self-play request without player_swap and without async was loaded.
C7_Witness ==
  /\ reqOut.called /\ ReqCore /\ ReqSelfplay /\ reqOut.res.ok
  /\ ~Has(reqJson["client_ctrl"], "player_swap")
  /\ ~Has(reqJson["client_ctrl"], "async")

\* ------------------------------------------------------ batches of Record
\* The text of a file or string: no JSON at all ("garbage", or "empty" for a
\* file of size 0), or one JSON value: an array of elements, an object (one
\* key), a number ("scalar") or null.
JsonSize(j) ==
  CASE j.kind = "array" -> Len(j.elems)
    [] j.kind \in {"object", "scalar"} -> 1
    [] OTHER -> 0

ParseThrows(text) == text.kind \in {"garbage", "empty"}

\* createFromJson(j[i]): j[i] itself throws unless j is an array.
ElemLoad(j, i) ==
  IF j.kind = "array" THEN Record_createFromJson(j.elems[i]) ELSE Throw(Record_default)

\* The loop of createBatchFromJson from element i on, recs being the vector so far.
RECURSIVE BatchLoop(_, _, _)
BatchLoop(j, i, recs) ==
  IF i > JsonSize(j) THEN recs
  ELSE LET r == ElemLoad(j, i) IN
       BatchLoop(j, i + 1, IF r.ok THEN Append(recs, r.v) ELSE recs)

Batch_writes(j) ==
  IF j.kind = "array" THEN UNION {Record_writes(j.elems[i]) : i \in DOMAIN j.elems}
  ELSE {}

\* A write prob[k] with k >= BOUND_COORD is out of the array: undefined
\* behaviour.  ub names what the build makes of it: "crash" (the process
\* dies in the call) or "corrupt" (the bytes behind the array are
\* overwritten and the call goes on).
createBatchFromJson(text, ub) ==
  IF ParseThrows(text)
  THEN [NoBatchCall EXCEPT !.call = "createBatchFromJson", !.outcome = "raised"]
  ELSE LET w == Batch_writes(text)
           oob == \E k \in w : k >= BOUND_COORD
       IN IF oob /\ ub = "crash"
          THEN [NoBatchCall EXCEPT !.call = "createBatchFromJson",
                                   !.outcome = "crashed", !.writes = w]
          ELSE [NoBatchCall EXCEPT !.call = "createBatchFromJson",
                                   !.outcome = "returned", !.writes = w,
                                   !.records = BatchLoop(text, 1, <<>>),
                                   !.corrupted = oob]

\* A variant that reports success only when it loaded at least one record.
loadBatchFromJsonFile_nonEmpty(f, ub) ==
  IF ~f.openable
  THEN [NoBatchCall EXCEPT !.call = "loadBatchFromJsonFile", !.outcome = "returned"]
  ELSE LET b == createBatchFromJson(f.text, ub) IN
       IF b.outcome = "raised"
       THEN [NoBatchCall EXCEPT !.call = "loadBatchFromJsonFile", !.outcome = "returned"]
       ELSE [b EXCEPT !.call = "loadBatchFromJsonFile",
                      !.ret = (b.outcome = "returned" /\ Len(b.records) > 0)]

\* A file that cannot be opened: tellg() is -1, the string of that size
\* throws, and the catch returns false.  Otherwise the buffer goes to
\* createBatchFromJson, whose exception the catch turns into false.
loadBatchFromJsonFile(f, ub) ==
  IF ~f.openable
  THEN [NoBatchCall EXCEPT !.call = "loadBatchFromJsonFile", !.outcome = "returned"]
  ELSE LET b == createBatchFromJson(f.text, ub) IN
       IF b.outcome = "raised"
       THEN [NoBatchCall EXCEPT !.call = "loadBatchFromJsonFile", !.outcome = "returned"]
       ELSE [b EXCEPT !.call = "loadBatchFromJsonFile", !.ret = (b.outcome = "returned")]

\* ---- the elements of the input arrays
Without(j, k) == [f \in DOMAIN j \ {k} |-> j[f]]

E_eval == Record_setJsonFields(R_eval)
E_noOffline == Without(E_eval, "offline")
E_noThread == Without(Record_setJsonFields(R_selfplay), "thread_id")
E_noNumMove ==
  [Record_setJsonFields(R_selfplay) EXCEPT !["result"] = Without(@, "num_move")]

\* A self-play record whose one policies row holds n entries.
E_row(n) ==
  [Record_setJsonFields(R_selfplay) EXCEPT
     !["result"] = [f \in DOMAIN @ |-> IF f = "policies" THEN <<[k \in 1..n |-> 1]>> ELSE @[f]]]

\* The longest row, in a record that lacks seq.
E_rowNoSeq == Without(E_row(MaxRow), "seq")

Elements ==
  {E_eval, E_noOffline, E_noThread, E_noNumMove, E_rowNoSeq}
    \cup {E_row(n) : n \in 0..MaxRow}

Texts ==
  {[kind |-> "array", elems |-> es] : es \in SeqsUpTo(Elements, MaxBatch)}
    \cup {[kind |-> k, elems |-> <<>>] : k \in {"garbage", "empty", "object", "scalar", "null"}}

InitBatch ==
  /\ file \in [openable : BOOLEAN, text : Texts]
  /\ batchOut = NoBatchCall
  /\ identity = "" /\ states = EmptyStates /\ records = <<>> /\ lastOp = NoCall
  /\ lastUpd = [id \in ThreadIds |-> ThreadState_default]
  /\ nAdded = 0 /\ loaded = NotLoaded
  /\ IdleConc /\ IdlePair /\ IdleReq

\* Record::createBatchFromJson(file.text)
CallCreateBatch ==
  /\ batchOut.call = "none"
  /\ \E ub \in {"crash", "corrupt"} : batchOut' = createBatchFromJson(file.text, ub)
  /\ UNCHANGED <<file, collectorVars, concVars, pairVars, reqVars>>

\* Record::loadBatchFromJsonFile(file, &records)
CallLoadBatch ==
  /\ batchOut.call = "none"
  /\ \E ub \in {"crash", "corrupt"} : batchOut' = loadBatchFromJsonFile(file, ub)
  /\ UNCHANGED <<file, collectorVars, concVars, pairVars, reqVars>>

NextBatch == CallCreateBatch \/ CallLoadBatch

SpecBatch == InitBatch /\ [][NextBatch]_vars

\* The elements of es that Record::createFromJson accepts, in their order.
Kept(es) ==
  LET good == {i \in DOMAIN es : Record_createFromJson(es[i]).ok}
      nth(k) == CHOOSE i \in good : Cardinality({m \in good : m <= i}) = k
  IN [k \in 1..Cardinality(good) |-> Record_createFromJson(es[nth(k)]).v]

\* C1: createBatchFromJson on a JSON array returns exactly the elements
\* that Record::createFromJson accepts, in their order; an element that
\* does not load never aborts the batch or raises to the caller.
C1_PartialFailure ==
  (batchOut.call = "createBatchFromJson" /\ file.text.kind = "array") =>
    (batchOut.outcome = "returned" /\ batchOut.records = Kept(file.text.elems))

\* The same, for the arrays none of whose rows is longer than the prob array.
RowsFit(es) ==
  \A i \in DOMAIN es : \A k \in Record_writes(es[i]) : k < BOUND_COORD

BatchPartialFailureWhenRowsFit ==
  (batchOut.call = "createBatchFromJson" /\ file.text.kind = "array"
     /\ RowsFit(file.text.elems)) =>
    (batchOut.outcome = "returned" /\ batchOut.records = Kept(file.text.elems))

\* C10: every write into a prob array uses an index below BOUND_COORD,
\* whatever the length of the row; the batch loader is never hurt by a long row.
C10_WritesInBounds ==
  batchOut.call # "none" =>
    /\ \A k \in batchOut.writes : k < BOUND_COORD
    /\ batchOut.outcome # "crashed" /\ ~batchOut.corrupted

FileValidJson == file.openable /\ ~ParseThrows(file.text)

Workers == 1..MaxWorkers

Calls ==
  {[NoCall EXCEPT !.op = "updateState", !.ts = ts] : ts \in ThreadStates}
    \cup {[NoCall EXCEPT !.op = "addRecord", !.r = r] : r \in RecordPool}

InitConc ==
  /\ pc \in [Workers -> [at : {"start"}, call : Calls]]
  /\ snap = [w \in Workers |-> [keys |-> {}, n |-> 0]]
  /\ identity = "" /\ states = EmptyStates /\ records = <<>> /\ lastOp = NoCall
  /\ lastUpd = [id \in ThreadIds |-> ThreadState_default]
  /\ nAdded = 0 /\ loaded = NotLoaded
  /\ IdlePair /\ IdleReq /\ IdleBatch

\* emplace_back reads the end of the vector; operator[] looks the key up.
WorkerRead(w) ==
  /\ pc[w].at = "start"
  /\ snap' = [snap EXCEPT ![w] = [keys |-> DOMAIN states, n |-> Len(records)]]
  /\ pc' = [pc EXCEPT ![w].at = "read"]
  /\ UNCHANGED <<collectorVars, pairVars, reqVars, batchVars>>

\* emplace_back constructs at the end it read and sets the size from it;
\* operator[] assigns to the node it found, or links a new node into the
\* table as it was when it looked.
WorkerWrite(w) ==
  /\ pc[w].at = "read"
  /\ LET c == pc[w].call IN
     IF c.op = "addRecord"
     THEN /\ records' = addRecord(SubSeq(records, 1, snap[w].n), c.r)
          /\ UNCHANGED states
     ELSE /\ states' = [id \in snap[w].keys \cup {c.ts.thread_id} |->
                          IF id = c.ts.thread_id THEN c.ts ELSE states[id]]
          /\ UNCHANGED records
  /\ pc' = [pc EXCEPT ![w].at = "done"]
  /\ UNCHANGED <<identity, lastOp, lastUpd, nAdded, loaded, snap,
                 pairVars, reqVars, batchVars>>

NextConc == \E w \in Workers : WorkerRead(w) \/ WorkerWrite(w)

SpecConc == InitConc /\ [][NextConc]_vars

\* The collector after the calls of the workers, one whole call at a time, in order o.
RECURSIVE ApplyInOrder(_, _, _)
ApplyInOrder(o, i, x) ==
  IF i > Len(o) THEN x
  ELSE LET c == pc[o[i]].call IN
       ApplyInOrder(o, i + 1,
         IF c.op = "addRecord"
         THEN [x EXCEPT !.records = addRecord(@, c.r)]
         ELSE [x EXCEPT !.states = updateState(@, c.ts)])

SequentialResults ==
  {ApplyInOrder(o, 1, [states |-> EmptyStates, records |-> <<>>]) : o \in Orders(Workers)}

\* C2: once every concurrent call has returned, the collector holds what
\* some sequential order of the calls would have left: no update, no record lost.
C2_Serialized ==
  (\A w \in Workers : pc[w].at = "done") =>
    [states |-> states, records |-> records] \in SequentialResults

====
